---- MODULE Spec2Model ----
(***************************************************************************)
(* Client-side orchestration of VeriFlow analysis jobs: processContent,    *)
(* the run* pipeline runners, streamJobProgress with its reconnection      *)
(* chain, and the Stop button.  One action is one browser task: an event   *)
(* handler together with every promise continuation (microtask) it         *)
(* releases.                                                               *)
(***************************************************************************)
EXTENDS Integers, Sequences, FiniteSets, TLC

VARIABLES
    runs,                \* one record per processContent call, in call order; a run
                         \* holds the EventSources of its reconnection chain
    activeEventSources,  \* AppState.activeEventSources: the channels it holds
    timers,              \* pending setTimeout callbacks of streamJobProgress.onerror
    currentJobIds,       \* AppState.currentJobIds, one slot per pipeline
    results,             \* AppState.current*Results, one slot per pipeline
    added,               \* the lines addProgress appended during the last task
    frame,               \* the frame onmessage received in the last task, and its channel
    poll,                \* the pollJobCompletion call: its locals, the clock, the job record
    loading,             \* setLoadingState: checkBtn/clearBtn/htmlInput disabled
    stopDisabled,        \* stopBtn.disabled
    section,             \* which of status/results/error section is displayed
    lastOp,              \* the handler that ran last
    lastFetchedArticle,  \* app.js: the result of the last successful scrape
    pendingContent,      \* AppState.pendingContent
    fetch,               \* the fetchArticleFromUrl call: where it is suspended, its end
    analyze              \* the handleAnalyze call: its content, its branch

\* The variables of the URL fetch and of handleAnalyze.
page == <<lastFetchedArticle, pendingContent, fetch, analyze>>

vars == <<runs, activeEventSources, timers, currentJobIds, results,
          added, frame, poll, loading, stopDisabled, section, lastOp,
          lastFetchedArticle, pendingContent, fetch, analyze>>

----------------------------------------------------------------------------
(* Bounds of the model *)

MaxRuns == 1        \* processContent calls explored by Spec
MaxConcRuns == 2    \* processContent calls explored by SpecConc
MaxConcErrors == 1  \* transport errors explored by SpecConc
MaxLaunchRuns == 2  \* processContent calls explored by SpecLaunch
MaxPolls == 4       \* poll requests explored by SpecPoll
MaxLog == 3         \* entries the job's progress log grows to
MaxAnalyses == 2    \* processContent calls explored by SpecFetch

(* Program constants *)

maxReconnects == 3
baseDelay == 2000
pollInterval == 1000
minContentLength == 100
defaultMaxWaitMs == 120000

----------------------------------------------------------------------------
(* Values *)

\* processContent's type argument; each selects one run* function, one
\* currentJobIds slot and one current*Results slot.
Types == {"html", "text", "key-claims", "bias", "lie-detection", "manipulation"}

NoJob == 0          \* null / undefined job id
Null == "null"      \* null result slot

\* A string is a sequence of words; includes() looks for a word.
Includes(str, word) == \E i \in DOMAIN str : str[i] = word

\* includes() looking for several words in a row.
IncludesPhrase(str, phrase) ==
    \E i \in 0..(Len(str) - Len(phrase)) : SubSeq(str, i + 1, i + Len(phrase)) = phrase

\* new Error(message); fetch rejects with a TypeError.
Error(message) == [name |-> "Error", message |-> message]
NetworkError == [name |-> "TypeError", message |-> <<"Failed", "to", "fetch">>]
NoError == [name |-> "", message |-> <<>>]

\* a || b on strings: the empty string is falsy.
OrElse(a, b) == IF a = <<>> THEN b ELSE a

RECURSIVE Pow2(_)
Pow2(n) == IF n = 0 THEN 1 ELSE 2 * Pow2(n - 1)

emoji(t) == "[" \o t \o "]"

\* The default messages of the run* functions' start errors.
StartFailedMsg(t) ==
    CASE t = "html" -> <<"LLM", "verification", "failed">>
      [] t = "text" -> <<"Fact", "check", "failed">>
      [] t = "key-claims" -> <<"Key", "claims", "check", "failed">>
      [] t = "bias" -> <<"Bias", "check", "failed">>
      [] t = "lie-detection" -> <<"Lie", "detection", "failed">>
      [] t = "manipulation" -> <<"Manipulation", "check", "failed">>

\* The prefix of the error line each run* function adds in its catch block.
RunnerFailedPrefix(t) ==
    CASE t = "html" -> <<"x", "LLM", "verification", "failed:">>
      [] t = "text" -> <<"x", "Fact", "check", "failed:">>
      [] t = "key-claims" -> <<"x", "Key", "claims", "analysis", "failed:">>
      [] t = "bias" -> <<"x", "Bias", "analysis", "failed:">>
      [] t = "lie-detection" -> <<"x", "Lie", "detection", "failed:">>
      [] t = "manipulation" -> <<"x", "Manipulation", "analysis", "failed:">>

\* The line each stream*Progress function adds after storing the result.
RunnerCompletedLine(t) ==
    CASE t = "html" -> <<"ok", "LLM", "interpretation", "verification", "completed">>
      [] t = "text" -> <<"ok", "Fact", "checking", "completed">>
      [] t = "key-claims" -> <<"ok", "Key", "claims", "analysis", "completed">>
      [] t = "bias" -> <<"ok", "Bias", "analysis", "completed">>
      [] t = "lie-detection" -> <<"ok", "Lie", "detection", "analysis", "completed">>
      [] t = "manipulation" -> <<"ok", "Manipulation", "analysis", "completed">>

\* A progress line: the text, and the run on whose behalf it was added
\* (0: the user's own action).
Line(r, text) == [run |-> r, text |-> text]


----------------------------------------------------------------------------
(* The backend's answers *)

\* Error texts a backend may put in an {error} body or a failed frame;
\* <<>> is an absent field.
BackendErrors == {<<>>, <<"boom">>, <<"upstream", "cancelled", "it">>}

Results == {"resA", "resB"}

\* The answer to a run* function's start request.
\*   net: fetch itself rejected;  ok: response.ok;  hasId: the body has job_id
StartResponses ==
    {[net |-> TRUE, ok |-> FALSE, hasId |-> FALSE, error |-> <<>>]}
    \cup {[net |-> FALSE, ok |-> FALSE, hasId |-> FALSE, error |-> e] : e \in BackendErrors}
    \cup {[net |-> FALSE, ok |-> TRUE, hasId |-> h, error |-> <<>>] : h \in BOOLEAN}

\* A frame of GET /jobs/{id}/stream, after JSON.parse.
Frame(hb, st, msg, err, res) ==
    [heartbeat |-> hb, status |-> st, message |-> msg, error |-> err, result |-> res]

ProgressFrames ==
    {Frame(FALSE, st, msg, <<>>, "none") :
        st \in {"", "running"}, msg \in {<<>>, <<"fetching">>}}

HeartbeatFrames ==
    {Frame(TRUE, st, <<>>, <<>>, "none") : st \in {"", "completed"}}

TerminalFrames ==
    {Frame(FALSE, "completed", <<>>, <<>>, res) : res \in Results}
    \cup {Frame(FALSE, "failed", <<>>, e, "none") : e \in BackendErrors}
    \cup {Frame(FALSE, "cancelled", <<>>, <<>>, "none")}

Frames == ProgressFrames \cup HeartbeatFrames \cup TerminalFrames

\* No frame was received in the last task.
NoFrame == [chan |-> <<0, 0>>]

\* The answer to GET /api/job/{id}: fetch rejected (net), or a job record.
\* status "" and error <<>> are absent fields.
JobRecord(net, st, err, res) == [net |-> net, status |-> st, error |-> err, result |-> res]

JobNotFound == <<"Job", "not", "found">>

JobErrors == {<<>>, <<"boom">>, <<"worker:">> \o JobNotFound}

JobRecords ==
    {JobRecord(TRUE, "", <<>>, "none")}
    \cup {JobRecord(FALSE, "", e, "none") : e \in {<<>>, <<"boom">>, JobNotFound}}
    \cup {JobRecord(FALSE, st, <<>>, "none") : st \in {"pending", "running"}}
    \cup {JobRecord(FALSE, "completed", <<>>, res) : res \in Results}
    \cup {JobRecord(FALSE, "failed", e, "none") : e \in JobErrors}
    \cup {JobRecord(FALSE, "cancelled", <<>>, "none")}

NoRecord ==
    [net |-> FALSE, status |-> "", error |-> <<>>, result |-> "unasked", progress_log |-> <<>>]

\* The k-th entry of a job's progress_log.
Entry(k) == [message |-> <<"step", ToString(k)>>]

\* Milliseconds a request takes, and a timer fires late by.
Latencies == {0, 300}
Lateness == {0, 200}

\* Date.now() when pollJobCompletion is called.
CallTimes == {0, 5000}

\* maxWaitMs as passed by a caller: two poll intervals, or the default.
MaxWaits == {2 * pollInterval, defaultMaxWaitMs}

\* pollJobCompletion has not been called.
NoPoll ==
    [pc |-> "idle", onProgress |-> FALSE, maxWaitMs |-> 0, startTime |-> 0, now |-> 0,
     polls |-> 0, waits |-> 0, delay |-> 0, running |-> 0, job |-> NoRecord, log |-> <<>>,
     calls |-> <<>>, value |-> "none", err |-> NoError]

----------------------------------------------------------------------------
(* State after page load *)

\* A string of the page: `pad` whitespace characters around `text` others;
\* `links` says whether it holds an <a href> or a [n] reference.
Content(pad, text, links) == [pad |-> pad, text |-> text, links |-> links]

Length(c) == c.pad + c.text

\* String.prototype.trim
Trim(c) == [c EXCEPT !.pad = 0]

EmptyContent == Content(0, 0, FALSE)

\* AppState.pendingContent before anything was parked.
NoContent == [null |-> TRUE]

\* What the user has typed into the textarea.
TypedContents ==
    {EmptyContent, Content(3, 0, FALSE), Content(1, 20, FALSE), Content(0, 20, TRUE)}

\* What the user has typed into the URL field: nothing, text that new URL()
\* rejects, or a protocol and the rest.
Urls == {<<>>, <<"example.com">>, <<"ftp:", "//example.com">>, <<"https:", "//example.com">>}

ModesTried == {"llm-output", "bias-analysis"}

\* The result of a scrape job; error <<>> is an absent field, hasLength
\* says whether content_length is present.
Article(success, error, content, hasLength) ==
    [success |-> success, error |-> error, content |-> content, hasLength |-> hasLength]

\* let lastFetchedArticle = null
NullArticle == [null |-> TRUE]

\* A completed job record without a result.
UndefinedArticle == [undefined |-> TRUE]

Articles ==
    {Article(TRUE, <<>>, c, TRUE) :
        c \in {EmptyContent, Content(2, minContentLength - 1, FALSE),
               Content(0, minContentLength, FALSE), Content(2, minContentLength, TRUE)}}
    \cup {Article(TRUE, <<>>, Content(0, minContentLength + 1, TRUE), FALSE)}
    \cup {Article(FALSE, e, Content(0, minContentLength, FALSE), TRUE) :
            e \in {<<>>, <<"paywall">>}}
    \cup {UndefinedArticle}

\* The answers to POST /api/scrape-url.
ScrapeResponses ==
    {[net |-> TRUE, ok |-> FALSE, hasId |-> FALSE, error |-> <<>>],
     [net |-> FALSE, ok |-> FALSE, hasId |-> FALSE, error |-> <<>>],
     [net |-> FALSE, ok |-> TRUE, hasId |-> FALSE, error |-> <<>>],
     [net |-> FALSE, ok |-> TRUE, hasId |-> TRUE, error |-> <<>>]}

\* No fetchArticleFromUrl call is in progress, none has ended.
NoFetch ==
    [pc |-> "idle", caller |-> "none", urlStatus |-> "none", outcome |-> "none",
     err |-> NoError]

\* No handleAnalyze call is in progress, none has ended.
NoAnalyze ==
    [pc |-> "idle", content |-> EmptyContent, url |-> <<>>, mode |-> "none",
     outcome |-> "none"]

Init ==
    /\ runs = <<>>
    /\ activeEventSources = {}
    /\ timers = {}
    /\ currentJobIds = [t \in Types |-> NoJob]
    /\ results = [t \in Types |-> Null]
    /\ added = <<>>
    /\ frame = NoFrame
    /\ poll = NoPoll
    /\ loading = FALSE
    /\ stopDisabled = TRUE
    /\ section = "none"
    /\ lastOp = "init"
    /\ lastFetchedArticle = NullArticle
    /\ pendingContent = NoContent
    /\ fetch = NoFetch
    /\ analyze = NoAnalyze

----------------------------------------------------------------------------
(* Channels.  Channel <<r, i>> is the i-th EventSource constructed for the *)
(* job of run r.                                                           *)

Channels == {<<r, i>> : r \in DOMAIN runs, i \in 1..4} \cap
            {c \in (DOMAIN runs) \X (1..4) : c[2] \in DOMAIN runs[c[1]].chans}

Chan(c) == runs[c[1]].chans[c[2]]

----------------------------------------------------------------------------
(* AppState methods *)

\* AppState.closeAllStreams: close() on every tracked EventSource ...
CloseTracked(rs, aes) ==
    [r \in DOMAIN rs |->
        [rs[r] EXCEPT !.chans =
            [i \in DOMAIN rs[r].chans |->
                IF <<r, i>> \in aes
                THEN [rs[r].chans[i] EXCEPT !.open = FALSE, !.closes = @ + 1]
                ELSE rs[r].chans[i]]]]

\* (mutant) the array is not reset
EmptiedSources_Kept(aes) == aes

\* ... and the registry left empty.
EmptiedSources(aes) == {}

EmptiedJobIds(ids) == [t \in Types |-> NoJob]

\* AppState.clearResults
ClearedResults(res) == [t \in Types |-> Null]

\* A run is active while processContent is suspended in it: at the start
\* request ("start") or at the stream promise ("stream").
Active(run) == run.pc \in {"start", "stream"}

\* Bookkeeping: closedAt records where a run was suspended when
\* closeAllStreams was first called under it ("": never).
MarkCancelled(rs) ==
    [i \in DOMAIN rs |->
        IF Active(rs[i]) /\ rs[i].closedAt = ""
        THEN [rs[i] EXCEPT !.closedAt = rs[i].pc]
        ELSE rs[i]]

----------------------------------------------------------------------------
(* streamJobProgress *)

\* (mutant) the push is left out
TrackChannel_Skipped(aes, c) == aes

\* AppState.activeEventSources.push(eventSource)
TrackChannel(aes, c) == aes \cup {c}

\* new EventSource(`/api/job/${jobId}/stream`)
NewChannel(job, attempts) ==
    [job |-> job, attempts |-> attempts, open |-> TRUE, closes |-> 0, promise |-> "pending"]

OpenChannel(rs, r, job, attempts) ==
    [rs EXCEPT ![r].chans = Append(@, NewChannel(job, attempts))]

\* (mutant) close() is left out
Close_Forgotten(rs, c) == rs

\* eventSource.close()
Close(rs, c) ==
    [rs EXCEPT ![c[1]].chans[c[2]] = [@ EXCEPT !.open = FALSE, !.closes = @ + 1]]

\* (mutant) one reconnect more
CanReconnect_Inclusive(reconnectAttempts) == reconnectAttempts <= maxReconnects

\* if (reconnectAttempts < maxReconnects)
CanReconnect(reconnectAttempts) == reconnectAttempts < maxReconnects

\* (mutant) linear instead of exponential backoff
ReconnectDelay_Linear(reconnectAttempts) == baseDelay * (reconnectAttempts + 1)

ReconnectDelay(reconnectAttempts) == baseDelay * Pow2(reconnectAttempts)

\* (mutant) the reconnecting call starts over at 0
NextAttempt_Reset(reconnectAttempts) == 0

NextAttempt(reconnectAttempts) == reconnectAttempts + 1

ConnectionLostLine(delay) ==
    <<"!", "Connection", "lost.", "Reconnecting", "in", ToString(delay \div 1000), "s...">>

ConnectionFailedLine ==
    <<"x", "Connection", "failed", "after", ToString(maxReconnects), "attempts">>

StreamExhaustedMsg == <<"Stream", "connection", "failed", "after", "retries">>
JobFailedMsg == <<"Job", "failed">>
JobCancelledMsg == <<"Job", "cancelled", "by", "user">>

----------------------------------------------------------------------------
(* processContent and the run* functions *)

\* processContent's catch: the generic error display is skipped for
\* messages that contain 'cancelled' or 'stopped'.
ShowsError(msg) == ~Includes(msg, "cancelled") /\ ~Includes(msg, "stopped")

\* (mutant) the failure also resets the result slots
Rejected_Clearing(rs, r, outcome, msg, pre) ==
    /\ runs' = [rs EXCEPT ![r].pc = "failed", ![r].promise = outcome, ![r].err = msg]
    /\ added' = pre \o <<Line(r, RunnerFailedPrefix(rs[r].type) \o msg)>>
    /\ section' = IF ShowsError(msg) THEN "error" ELSE section
    /\ loading' = FALSE
    /\ stopDisabled' = TRUE
    /\ results' = ClearedResults(results)

\* (mutant) the catch throws a new error made of its line's text
Rethrown_Decorated(t, msg) == RunnerFailedPrefix(t) \o msg

\* The run* function's catch: `throw error`, the error it caught.
Rethrown(t, msg) == msg

\* (mutant) processContent without its finally block
Rejected_NoFinally(rs, r, outcome, msg, pre) ==
    /\ runs' = [rs EXCEPT ![r].pc = "failed", ![r].promise = outcome,
                          ![r].err = Rethrown(rs[r].type, msg)]
    /\ added' = pre \o <<Line(r, RunnerFailedPrefix(rs[r].type) \o msg)>>
    /\ section' = IF ShowsError(Rethrown(rs[r].type, msg)) THEN "error" ELSE section
    /\ UNCHANGED <<loading, stopDisabled, results>>

\* A run* function's awaited step threw `msg`: its catch adds the error
\* line and re-throws; processContent's catch and finally follow.
\* `rs` is runs as the throwing handler left it, `pre` the lines it added.
Rejected(rs, r, outcome, msg, pre) ==
    /\ runs' = [rs EXCEPT ![r].pc = "failed", ![r].promise = outcome,
                          ![r].err = Rethrown(rs[r].type, msg)]
    /\ added' = pre \o <<Line(r, RunnerFailedPrefix(rs[r].type) \o msg)>>
    /\ section' = IF ShowsError(Rethrown(rs[r].type, msg)) THEN "error" ELSE section
    /\ loading' = FALSE
    /\ stopDisabled' = TRUE
    /\ UNCHANGED results

\* (mutant) an entry that is present is kept
Stored_Merged(res, t, result) == [res EXCEPT ![t] = IF @ = Null THEN result ELSE @]

\* AppState.current*Results = result
Stored(res, t, result) == [res EXCEPT ![t] = result]

\* The stream promise resolved with `res`: stream*Progress stores it and adds
\* its line, the run* function returns, processContent displays and finishes.
Resolved(rs, r, res, pre) ==
    /\ runs' = [rs EXCEPT ![r].pc = "done", ![r].promise = "resolved"]
    /\ results' = Stored(results, rs[r].type, res)
    /\ added' = pre \o <<Line(r, RunnerCompletedLine(rs[r].type))>>
    /\ section' = "results"
    /\ loading' = FALSE
    /\ stopDisabled' = TRUE

\* A handler that settles nothing: only its own lines.
Unsettled(rs, lines) ==
    /\ runs' = rs
    /\ added' = lines
    /\ UNCHANGED <<results, loading, stopDisabled, section>>

\* The first two lines of a run: processContent's and the run* function's.
StartingLines(r, t) ==
    <<Line(r, <<"Starting", t>>), Line(r, <<"Starting", t, "...">>)>>

NewRun(t) ==
    [type |-> t, pc |-> "start", job |-> NoJob, promise |-> "none", err |-> <<>>,
     chans |-> <<>>, errors |-> 0, delays |-> <<>>, closedAt |-> ""]

\* (mutant) the call of clearResults is left out
ProcessContent_NoClear(t) ==
    /\ ~loading
    /\ lastOp' = "processContent"
    /\ frame' = NoFrame
    /\ UNCHANGED poll
    /\ activeEventSources' = EmptiedSources(activeEventSources)
    /\ currentJobIds' = EmptiedJobIds(currentJobIds)
    /\ loading' = TRUE
    /\ stopDisabled' = FALSE
    /\ section' = "status"
    /\ results' = results
    /\ added' = StartingLines(Len(runs) + 1, t)
    /\ runs' = Append(MarkCancelled(CloseTracked(runs, activeEventSources)), NewRun(t))
    /\ UNCHANGED timers

ProcessContent(t) ==
    /\ ~loading
    /\ lastOp' = "processContent"
    /\ frame' = NoFrame
    /\ UNCHANGED poll
    /\ activeEventSources' = EmptiedSources(activeEventSources)
    /\ currentJobIds' = EmptiedJobIds(currentJobIds)
    /\ loading' = TRUE
    /\ stopDisabled' = FALSE
    /\ section' = "status"
    /\ results' = ClearedResults(results)
    /\ added' = StartingLines(Len(runs) + 1, t)
    /\ runs' = Append(MarkCancelled(CloseTracked(runs, activeEventSources)), NewRun(t))
    /\ UNCHANGED timers

\* The start request of run r is answered.
StartResponse(r, resp) ==
    /\ runs[r].pc = "start"
    /\ lastOp' = "startResponse"
    /\ frame' = NoFrame
    /\ UNCHANGED <<poll, page>>
    /\ IF resp.net
       THEN /\ Rejected(runs, r, "none", <<"Failed", "to", "fetch">>, <<>>)
            /\ UNCHANGED <<activeEventSources, timers, currentJobIds>>
       ELSE IF ~resp.ok
       THEN /\ Rejected(runs, r, "none", OrElse(resp.error, StartFailedMsg(runs[r].type)), <<>>)
            /\ UNCHANGED <<activeEventSources, timers, currentJobIds>>
       ELSE LET job == IF resp.hasId THEN r ELSE NoJob IN
            /\ currentJobIds' = [currentJobIds EXCEPT ![runs[r].type] = job]
            /\ activeEventSources' = TrackChannel(activeEventSources, <<r, 1>>)
            /\ runs' = OpenChannel([runs EXCEPT ![r].pc = "stream", ![r].job = job,
                                                ![r].promise = "pending"], r, job, 0)
            /\ added' = <<>>
            /\ UNCHANGED <<timers, results, loading, stopDisabled, section>>

\* (mutant) .catch(reject) is left out: only a resolution is passed on
Relayed_ResolveOnly(outcome) == IF outcome = "resolved" THEN outcome ELSE "pending"

\* streamJobProgress(...).then(resolve).catch(reject): the promise of the
\* call that errored settles as the promise of the reconnecting call does.
Relayed(outcome) == outcome

\* The outcome a settlement has on the promise `hops` calls up the chain.
RECURSIVE Outer(_, _)
Outer(outcome, hops) == IF hops = 0 THEN outcome ELSE Outer(Relayed(outcome), hops - 1)

\* resolve/reject on the promise of channel c, relayed up its chain; a
\* promise that is settled stays as it is.
SettleChain(rs, c, outcome) ==
    [rs EXCEPT ![c[1]].chans =
        [k \in DOMAIN @ |->
            IF k <= c[2] /\ @[k].promise = "pending"
            THEN [@[k] EXCEPT !.promise = Outer(outcome, c[2] - k)]
            ELSE @[k]]]

\* Channel c settles its promise with `outcome` (value `res` or error
\* `msg`); what the run* function awaiting the first promise of the chain
\* does follows in the same task.
Settle(rs, c, outcome, res, msg, pre) ==
    LET r == c[1]
        o == Outer(outcome, c[2] - 1)
        chain == SettleChain(rs, c, outcome)
    IN  IF runs[r].promise # "pending" \/ o = "pending"
        THEN Unsettled(chain, pre)
        ELSE IF o = "resolved"
        THEN Resolved(chain, r, res, pre)
        ELSE Rejected(chain, r, o, msg, pre)

\* (mutant) the heartbeat test is left out
IsHeartbeat_Never(f) == FALSE

\* (mutant) a frame with a terminal status is not taken for a heartbeat
IsHeartbeat_NonTerminal(f) ==
    f.heartbeat /\ f.status \notin {"completed", "failed", "cancelled"}

\* if (data.heartbeat)
IsHeartbeat(f) == f.heartbeat

\* (mutant) the status line is added beside the message
ProgressLines_Both(r, f) ==
    (IF f.message # <<>> THEN <<Line(r, f.message)>> ELSE <<>>)
    \o (IF f.status # "" THEN <<Line(r, <<"~", f.status>>)>> ELSE <<>>)

\* The lines of a frame that is neither a heartbeat nor terminal: its
\* message, or else a line made from its status.
ProgressLines(r, f) ==
    (IF f.message # <<>> THEN <<Line(r, f.message)>> ELSE <<>>)
    \o (IF f.status # "" /\ f.message = <<>>
        THEN <<Line(r, <<"~", f.status>>)>> ELSE <<>>)

\* eventSource.onmessage on channel c
OnMessage(c, f) ==
    LET r == c[1]
        e == emoji(runs[r].type)
    IN
    /\ Chan(c).open
    /\ lastOp' = "onmessage"
    /\ frame' = [chan |-> c, f |-> f]
    /\ UNCHANGED <<poll, page>>
    /\ UNCHANGED <<activeEventSources, timers, currentJobIds>>
    /\ IF IsHeartbeat(f)
       THEN Unsettled(runs, <<>>)
       ELSE IF f.status = "completed"
       THEN LET line == Line(r, <<e, "Complete!">>) IN
            Settle(Close(runs, c), c, "resolved", f.result, <<>>, <<line>>)
       ELSE IF f.status = "failed"
       THEN LET line == Line(r, <<e, "Failed:">> \o OrElse(f.error, <<"Unknown", "error">>)) IN
            Settle(Close(runs, c), c, "failed", "none", OrElse(f.error, JobFailedMsg), <<line>>)
       ELSE IF f.status = "cancelled"
       THEN LET line == Line(r, <<e, "Job", "cancelled">>) IN
            Settle(Close(runs, c), c, "cancelled", "none", JobCancelledMsg, <<line>>)
       ELSE Unsettled(runs, ProgressLines(r, f))

\* eventSource.onerror on channel c
OnError(c) ==
    LET r == c[1]
        a == Chan(c).attempts
        delay == ReconnectDelay(a)
        closed == [Close(runs, c) EXCEPT ![r].errors = @ + 1]
    IN
    /\ Chan(c).open
    /\ lastOp' = "onerror"
    /\ frame' = NoFrame
    /\ UNCHANGED <<poll, page>>
    /\ UNCHANGED <<activeEventSources, currentJobIds>>
    /\ IF CanReconnect(a)
       THEN /\ timers' = timers \cup
                   {[run |-> r, job |-> Chan(c).job, attempts |-> NextAttempt(a),
                     delay |-> delay]}
            /\ Unsettled([closed EXCEPT ![r].delays = Append(@, delay)],
                         <<Line(r, ConnectionLostLine(delay))>>)
       ELSE /\ UNCHANGED timers
            /\ Settle(closed, c, "exhausted", "none", StreamExhaustedMsg,
                      <<Line(r, ConnectionFailedLine)>>)

\* (mutant) the timer stays pending after it has fired
TimerFire_Kept(t) ==
    /\ t \in timers
    /\ lastOp' = "timer"
    /\ frame' = NoFrame
    /\ UNCHANGED <<poll, page>>
    /\ timers' = timers
    /\ activeEventSources' =
           TrackChannel(activeEventSources, <<t.run, Len(runs[t.run].chans) + 1>>)
    /\ Unsettled(OpenChannel(runs, t.run, t.job, t.attempts), <<>>)
    /\ UNCHANGED currentJobIds

\* The setTimeout callback of onerror: streamJobProgress is called again.
TimerFire(t) ==
    /\ t \in timers
    /\ lastOp' = "timer"
    /\ frame' = NoFrame
    /\ UNCHANGED <<poll, page>>
    /\ timers' = timers \ {t}
    /\ activeEventSources' =
           TrackChannel(activeEventSources, <<t.run, Len(runs[t.run].chans) + 1>>)
    /\ Unsettled(OpenChannel(runs, t.run, t.job, t.attempts), <<>>)
    /\ UNCHANGED currentJobIds

\* stopBtn's click handler
StopClick ==
    /\ loading
    /\ ~stopDisabled
    /\ lastOp' = "stop"
    /\ frame' = NoFrame
    /\ UNCHANGED <<poll, page>>
    /\ activeEventSources' = EmptiedSources(activeEventSources)
    /\ currentJobIds' = EmptiedJobIds(currentJobIds)
    /\ runs' = MarkCancelled(CloseTracked(runs, activeEventSources))
    /\ added' = <<Line(0, <<"Analysis", "stopped", "by", "user">>)>>
    /\ loading' = FALSE
    /\ stopDisabled' = TRUE
    /\ UNCHANGED <<timers, results, section>>

----------------------------------------------------------------------------
(* pollJobCompletion *)

ExpiredMsg == <<"Job", "expired", "or", "not", "found">>
TimeoutMsg == <<"Timeout", "waiting", "for", "job", "completion">>
JobWasCancelledMsg == <<"Job", "was", "cancelled">>

\* The loop's catch block: 'Job not found' is remapped, the rest re-thrown.
Caught(error) ==
    IF IncludesPhrase(error.message, JobNotFound) THEN Error(ExpiredMsg) ELSE error

\* (mutant) the loop swallows the error and polls again
Thrown_Retried(p, error) ==
    [p EXCEPT !.pc = "waiting", !.waits = @ + 1, !.delay = pollInterval]

\* A throw inside the loop's try block ends the call.
Thrown(p, error) == [p EXCEPT !.pc = "rejected", !.err = Caught(error)]

\* (mutant) every entry of the log is delivered
LastProgress_All(progress_log) == progress_log

\* The arguments onProgress is called with in one cycle.
LastProgress(progress_log) == <<progress_log[Len(progress_log)]>>

\* (mutant) the start time is left out of the comparison
InTime_Absolute(p) == p.now < p.maxWaitMs

\* The while condition.
InTime(p) == p.now - p.startTime < p.maxWaitMs

\* The loop condition is evaluated: the next request, or the timeout.
Waited(p) ==
    IF InTime(p)
    THEN [p EXCEPT !.pc = "fetching", !.polls = @ + 1]
    ELSE [p EXCEPT !.pc = "rejected", !.err = Error(TimeoutMsg)]

\* (mutant) a field the record does not have is returned
Returned_Undefined(job) == "none"

\* return job.result
Returned(job) == job.result

\* (mutant) the callback is called only when the log has changed
Notifies_OnChange(p, job) ==
    p.onProgress /\ job.progress_log # <<>> /\ job.progress_log # p.job.progress_log

\* if (onProgress && job.progress_log && job.progress_log.length > 0)
\* (p.job is the record of the poll before)
Notifies(p, job) == p.onProgress /\ job.progress_log # <<>>

\* One job record handled by the loop body.
Handled(p, job) ==
    IF job.net
    THEN Thrown(p, NetworkError)
    ELSE IF job.error # <<>> /\ job.status = ""
    THEN Thrown(p, Error(job.error))
    ELSE LET q == IF Notifies(p, job)
                  THEN [p EXCEPT !.calls = LastProgress(job.progress_log)]
                  ELSE p
         IN  IF job.status = "completed"
             THEN [q EXCEPT !.pc = "resolved", !.value = Returned(job)]
             ELSE IF job.status = "failed"
             THEN Thrown(q, Error(OrElse(job.error, JobFailedMsg)))
             ELSE IF job.status = "cancelled"
             THEN Thrown(q, Error(JobWasCancelledMsg))
             ELSE [q EXCEPT !.pc = "waiting", !.waits = @ + 1, !.delay = pollInterval]

StreamUnchanged ==
    UNCHANGED <<runs, activeEventSources, timers, currentJobIds, results,
                added, frame, loading, stopDisabled, section, page>>

\* pollJobCompletion(jobId, onProgress, maxWaitMs) is called at time t0.
PollCall(onProgress, maxWaitMs, t0) ==
    /\ poll.pc = "idle"
    /\ lastOp' = "pollCall"
    /\ poll' = Waited([NoPoll EXCEPT !.onProgress = onProgress, !.maxWaitMs = maxWaitMs,
                                     !.startTime = t0, !.now = t0])
    /\ StreamUnchanged

\* The request is answered after `latency` ms; the job's log has grown by
\* `grown` entries meanwhile.
PollResponse(record, grown, latency) ==
    LET log == poll.log \o [k \in 1..grown |-> Entry(Len(poll.log) + k)]
        job == [net |-> record.net, status |-> record.status, error |-> record.error,
                result |-> record.result,
                progress_log |-> IF record.net \/ record.status = "" THEN <<>> ELSE log]
    IN
    /\ poll.pc = "fetching"
    /\ Len(log) <= MaxLog
    /\ lastOp' = "pollResponse"
    /\ poll' = [Handled([poll EXCEPT !.now = @ + latency, !.log = log, !.calls = <<>>,
                                     !.running = IF job.status = "running" THEN @ + 1 ELSE @],
                        job)
                   EXCEPT !.job = job]
    /\ StreamUnchanged

\* The setTimeout of the loop body fires, `late` ms after it was due.
PollTimer(late) ==
    /\ poll.pc = "waiting"
    /\ poll.polls < MaxPolls
    /\ lastOp' = "pollTimer"
    /\ poll' = Waited([poll EXCEPT !.now = @ + poll.delay + late, !.calls = <<>>])
    /\ StreamUnchanged

NextPoll ==
    \/ \E cb \in BOOLEAN, w \in MaxWaits, t0 \in CallTimes : PollCall(cb, w, t0)
    \/ \E job \in JobRecords, g \in 0..2, d \in Latencies : PollResponse(job, g, d)
    \/ \E late \in Lateness : PollTimer(late)

SpecPoll == Init /\ [][NextPoll]_vars

\* A request is answered and a timer fires.
FairSpecPoll ==
    /\ SpecPoll
    /\ WF_vars(\E job \in JobRecords, g \in 0..2, d \in Latencies : PollResponse(job, g, d))
    /\ WF_vars(\E late \in Lateness : PollTimer(late))

----------------------------------------------------------------------------
(* fetchArticleFromUrl and handleAnalyze *)

FailedToStartFetchMsg == <<"Failed", "to", "start", "fetch">>
NoJobIdMsg == <<"No", "job", "ID", "returned">>
FailedToFetchMsg == <<"Failed", "to", "fetch", "article">>
InsufficientContentMsg ==
    <<"Could", "not", "extract", "sufficient", "content", "from", "the", "URL">>

\* Reading a property of undefined.
PropertyError == [name |-> "TypeError", message |-> <<"Cannot", "read", "properties">>]

\* isValidUrl: new URL(string) parses, and the protocol is http: or https:
isValidUrl(string) == Len(string) = 2 /\ string[1] \in {"http:", "https:"}

hasHTMLLinks(content) == content.links

\* (mutant) every mode starts the fact check
TypeOf_Text(mode) == "text"

\* The pipeline handleAnalyze starts for a mode.
TypeOf(mode) ==
    CASE mode = "llm-output" -> "html"
      [] mode = "text-factcheck" -> "text"
      [] mode = "key-claims" -> "key-claims"
      [] mode = "bias-analysis" -> "bias"
      [] mode = "lie-detection" -> "lie-detection"
      [] mode = "manipulation" -> "manipulation"

\* The ways the pollJobCompletion call of fetchArticleFromUrl ends: resolved
\* with the job's result, or rejected with one of its errors.
PollOutcomes ==
    {[resolved |-> TRUE, value |-> a, err |-> NoError] : a \in Articles}
    \cup {[resolved |-> FALSE, value |-> UndefinedArticle, err |-> e] :
            e \in {Error(TimeoutMsg), Caught(Error(JobFailedMsg))}}

\* Step 3 of fetchArticleFromUrl and what follows it, on the value
\* pollJobCompletion resolved with: whether lastFetchedArticle is assigned,
\* and the error thrown (NoError: the function returns).
Validated(result) ==
    IF result = UndefinedArticle
    THEN [stored |-> FALSE, thrown |-> PropertyError]
    ELSE IF ~result.success
    THEN [stored |-> FALSE, thrown |-> Error(OrElse(result.error, FailedToFetchMsg))]
    ELSE IF Length(result.content) = 0 \/ Length(Trim(result.content)) < minContentLength
    THEN [stored |-> FALSE, thrown |-> Error(InsufficientContentMsg)]
    ELSE IF ~result.hasLength
    THEN [stored |-> TRUE, thrown |-> PropertyError]
    ELSE [stored |-> TRUE, thrown |-> NoError]

\* fetchArticleFromUrl is called: showUrlStatus('loading'), the POST is sent.
FetchCalled(caller) ==
    [pc |-> "starting", caller |-> caller, urlStatus |-> "loading", outcome |-> "none",
     err |-> NoError]

\* A handler that touches neither the streams nor the results nor the log.
SessionUnchanged ==
    UNCHANGED <<runs, activeEventSources, timers, currentJobIds, results,
                poll, loading, stopDisabled>>

\* handleAnalyze from `if (!content)` on.  `a` is the call, `f` the fetch
\* record as the handler has left it so far.
Analyzed(a, f, content, mode) ==
    IF Length(content) = 0
    THEN /\ analyze' = [a EXCEPT !.pc = "idle", !.content = content, !.outcome = "empty"]
         /\ fetch' = f
         /\ section' = "error"
         /\ lastOp' = "handleAnalyze"
         /\ frame' = NoFrame
         /\ added' = <<>>
         /\ SessionUnchanged
         /\ UNCHANGED pendingContent
    ELSE IF mode = "llm-output" /\ ~hasHTMLLinks(content)
    THEN /\ analyze' = [a EXCEPT !.pc = "idle", !.content = content, !.mode = mode,
                                 !.outcome = "parked"]
         /\ fetch' = [f EXCEPT !.urlStatus = "none"]
         /\ pendingContent' = content
         /\ lastOp' = "handleAnalyze"
         /\ frame' = NoFrame
         /\ added' = <<>>
         /\ SessionUnchanged
         /\ UNCHANGED section
    ELSE /\ analyze' = [a EXCEPT !.pc = "idle", !.content = content, !.mode = mode,
                                 !.outcome = "launched"]
         /\ fetch' = [f EXCEPT !.urlStatus = "none"]
         /\ ProcessContent(TypeOf(mode))
         /\ UNCHANGED pendingContent

\* checkBtn's click handler, with the textarea holding `content`, the URL
\* field `url` and the mode tab `mode` selected.
HandleAnalyze(content, url, mode) ==
    LET a == [NoAnalyze EXCEPT !.content = Trim(content), !.url = url] IN
    /\ ~loading
    /\ fetch.pc = "idle"
    /\ analyze.pc = "idle"
    /\ Len(runs) < MaxAnalyses
    /\ UNCHANGED lastFetchedArticle
    /\ IF url # <<>> /\ isValidUrl(url) /\ Length(Trim(content)) = 0
       THEN /\ analyze' = [a EXCEPT !.pc = "fetching"]
            /\ fetch' = FetchCalled("analyze")
            /\ added' = <<Line(0, <<"Fetching", "article", "from", "URL...">>)>>
            /\ lastOp' = "handleAnalyze"
            /\ frame' = NoFrame
            /\ SessionUnchanged
            /\ UNCHANGED <<section, pendingContent>>
       ELSE Analyzed(a, fetch, Trim(content), mode)

\* fetchUrlBtn's click handler
FetchClick(url) ==
    /\ fetch.pc = "idle"
    /\ lastOp' = "fetchClick"
    /\ frame' = NoFrame
    /\ added' = <<>>
    /\ fetch' = IF isValidUrl(url) THEN FetchCalled("button")
                ELSE [fetch EXCEPT !.urlStatus = "error"]
    /\ SessionUnchanged
    /\ UNCHANGED <<section, lastFetchedArticle, pendingContent, analyze>>

\* fetchArticleFromUrl throws `error`: its catch shows it and re-throws; the
\* caller's catch follows.
FetchThrown(error) ==
    /\ fetch' = [fetch EXCEPT !.pc = "idle", !.outcome = "thrown", !.err = error,
                              !.urlStatus = "error"]
    /\ IF fetch.caller = "analyze"
       THEN /\ analyze' = [analyze EXCEPT !.pc = "idle", !.outcome = "fetchFailed"]
            /\ section' = "error"
       ELSE UNCHANGED <<analyze, section>>
    /\ frame' = NoFrame
    /\ added' = <<>>
    /\ SessionUnchanged
    /\ UNCHANGED pendingContent

\* The POST /api/scrape-url is answered.
ScrapeStarted(resp) ==
    /\ fetch.pc = "starting"
    /\ lastOp' = "scrapeStarted"
    /\ UNCHANGED lastFetchedArticle
    /\ IF resp.net
       THEN FetchThrown(NetworkError)
       ELSE IF ~resp.ok
       THEN FetchThrown(Error(OrElse(resp.error, FailedToStartFetchMsg)))
       ELSE IF ~resp.hasId
       THEN FetchThrown(Error(NoJobIdMsg))
       ELSE /\ fetch' = [fetch EXCEPT !.pc = "polling"]
            /\ frame' = NoFrame
            /\ added' = <<>>
            /\ SessionUnchanged
            /\ UNCHANGED <<section, pendingContent, analyze>>

\* The pollJobCompletion call of fetchArticleFromUrl ends with `o`; `mode` is
\* the tab selected when handleAnalyze goes on.
ScrapeSettled(o, mode) ==
    LET v == IF o.resolved THEN Validated(o.value) ELSE [stored |-> FALSE, thrown |-> o.err]
        f == [fetch EXCEPT !.pc = "idle", !.outcome = "returned", !.urlStatus = "success"]
    IN
    /\ fetch.pc = "polling"
    /\ lastFetchedArticle' = IF v.stored THEN o.value ELSE lastFetchedArticle
    /\ IF v.thrown # NoError
       THEN lastOp' = "scrapeSettled" /\ FetchThrown(v.thrown)
       ELSE IF fetch.caller = "analyze"
       THEN Analyzed(analyze, f, o.value.content, mode)
       ELSE /\ fetch' = f
            /\ lastOp' = "scrapeSettled"
            /\ frame' = NoFrame
            /\ added' = <<>>
            /\ SessionUnchanged
            /\ UNCHANGED <<section, pendingContent, analyze>>

\* The URL fetch and the analyses it leads to; a launched run is ended by Stop.
NextFetch ==
    \/ \E content \in TypedContents, url \in Urls, mode \in ModesTried :
           HandleAnalyze(content, url, mode)
    \/ \E url \in Urls : FetchClick(url)
    \/ \E resp \in ScrapeResponses : ScrapeStarted(resp)
    \/ \E o \in PollOutcomes, mode \in ModesTried : ScrapeSettled(o, mode)
    \/ StopClick

SpecFetch == Init /\ [][NextFetch]_vars

----------------------------------------------------------------------------
\* The types the model's user asks for.  The six run* functions are
\* instances of one template; two of them are explored.
TypesTried == {"text", "bias"}

ErrorsSoFar == LET RECURSIVE sum(_)
                   sum(n) == IF n = 0 THEN 0 ELSE runs[n].errors + sum(n - 1)
               IN sum(Len(runs))

\* One browser task, with at most maxRuns analyses started and at most
\* maxErrs transport errors raised.
Task(maxRuns, maxErrs) ==
    \/ \E t \in TypesTried : Len(runs) < maxRuns /\ ProcessContent(t) /\ UNCHANGED page
    \/ \E r \in DOMAIN runs, resp \in StartResponses : StartResponse(r, resp)
    \/ \E c \in Channels, f \in Frames : OnMessage(c, f)
    \/ \E c \in Channels : ErrorsSoFar < maxErrs /\ OnError(c)
    \/ \E t \in timers : TimerFire(t)
    \/ StopClick

Next == Task(MaxRuns, MaxRuns * (maxReconnects + 1))

Spec == Init /\ [][Next]_vars

\* Several analyses, started one after another's Stop or end.
NextConc == Task(MaxConcRuns, MaxConcErrors)

SpecConc == Init /\ [][NextConc]_vars

\* The frames SpecLaunch lets a stream deliver.
LaunchFrames ==
    {Frame(FALSE, "running", <<"fetching">>, <<>>, "none")}
    \cup {Frame(FALSE, "completed", <<>>, <<>>, res) : res \in Results}
    \cup {Frame(FALSE, "failed", <<>>, <<"boom">>, "none")}
    \cup {Frame(TRUE, "completed", <<>>, <<>>, "resA"),
          Frame(TRUE, "failed", <<>>, <<"boom">>, "none"),
          Frame(TRUE, "cancelled", <<>>, <<>>, "none")}

\* Launches beside earlier runs: no transport errors, few frames.
NextLaunch ==
    \/ \E t \in TypesTried : Len(runs) < MaxLaunchRuns /\ ProcessContent(t) /\ UNCHANGED page
    \/ \E r \in DOMAIN runs, resp \in StartResponses : StartResponse(r, resp)
    \/ \E c \in Channels, f \in LaunchFrames : OnMessage(c, f)
    \/ StopClick

SpecLaunch == Init /\ [][NextLaunch]_vars

\* The frames SpecStream lets a stream deliver.
StreamFrames ==
    {Frame(FALSE, "running", <<"fetching">>, <<>>, "none"),
     Frame(FALSE, "completed", <<>>, <<>>, "resA"),
     Frame(FALSE, "failed", <<>>, <<"boom">>, "none"),
     Frame(FALSE, "cancelled", <<>>, <<>>, "none")}

\* Channel c ends: it delivers a terminal frame or raises a transport error.
ChannelEnds(c) ==
    /\ c \in Channels
    /\ \/ \E f \in StreamFrames : f.status # "running" /\ OnMessage(c, f)
       \/ OnError(c)

\* The names a channel can have.
ChannelIds == (1..MaxRuns) \X (1..(maxReconnects + 1))

\* Streams that end: started jobs, few frames, any number of errors.
NextStream ==
    \/ \E t \in TypesTried : Len(runs) < MaxRuns /\ ProcessContent(t) /\ UNCHANGED page
    \/ \E r \in DOMAIN runs : StartResponse(r, [net |-> FALSE, ok |-> TRUE, hasId |-> TRUE, error |-> <<>>])
    \/ \E c \in Channels, f \in StreamFrames : OnMessage(c, f)
    \/ \E c \in Channels : OnError(c)
    \/ \E t \in timers : TimerFire(t)
    \/ StopClick

SpecStream == Init /\ [][NextStream]_vars

\* A pending timer fires, and every channel ends: the backend sends a
\* terminal frame or the transport fails.
FairSpecStream ==
    /\ SpecStream
    /\ WF_vars(\E t \in timers : TimerFire(t))
    /\ \A c \in ChannelIds : WF_vars(ChannelEnds(c))

\* A timer that is pending fires; nothing else is promised: the backend may
\* leave a channel silent for ever.
FairSpec == Spec /\ WF_vars(\E t \in timers : TimerFire(t))

----------------------------------------------------------------------------
(* Vocabulary of the properties *)

Settled(run) == run.promise \in {"resolved", "failed", "cancelled", "exhausted"}

SettledByFrame(run) == run.promise \in {"resolved", "failed", "cancelled"}

AllClosed(run) == \A i \in DOMAIN run.chans : ~run.chans[i].open

HasOpen(run) == \E i \in DOMAIN run.chans : run.chans[i].open

HasLineOf(lines, r) == \E i \in DOMAIN lines : lines[i].run = r

HasTimer(ts, r) == \E t \in ts : t.run = r

RegistryEmpty(aes, ids) == aes = {} /\ \A t \in Types : ids[t] = NoJob

\* The handlers that call AppState.closeAllStreams
CloseAllCallers == {"stop", "processContent"}

\* What a caller can inspect of an error without reading its message.
Kind(error) == error.name

Polling == poll.pc \in {"fetching", "waiting"}

PollSettled == poll.pc \in {"resolved", "rejected"}

Elapsed(p) == p.now - p.startTime

\* The job record received last is not terminal and made the loop wait.
NonTerminal(job) ==
    ~job.net /\ job.status \notin {"completed", "failed", "cancelled"}
             /\ ~(job.error # <<>> /\ job.status = "")

\* The request threw, or its response carries an error and no status.
TransportFailed(job) == job.net \/ (job.error # <<>> /\ job.status = "")

\* The message texts progress frames carry.
FrameMessages == {f.message : f \in ProgressFrames} \ {<<>>}

IsPrefix(s, t) == Len(s) <= Len(t) /\ \A i \in DOMAIN s : s[i] = t[i]

BackoffSchedule == <<2000, 4000, 8000>>

----------------------------------------------------------------------------
(* C1..C10 *)

\* C1: a stream promise that is pending when closeAllStreams is called is
\* eventually rejected, so its awaiting run does not stay suspended.
\* (Checked under FairSpec; the code does not do this.)
C1_ClosedStreamRejects ==
    \A r \in 1..MaxRuns :
        [](r \in DOMAIN runs /\ runs[r].job # NoJob
              /\ runs[r].closedAt = "stream" /\ runs[r].promise = "pending"
             => <>(r \in DOMAIN runs /\ runs[r].promise \in {"failed", "cancelled", "exhausted"}))

\* C2: no closed channel is still in the tracked set.  (The code leaves a
\* channel closed by onmessage or onerror in activeEventSources.)
C2_NoClosedChannelTracked ==
    \A c \in activeEventSources : Chan(c).open

\* C3: at most one open channel per pipeline kind.  (Checked under SpecConc;
\* the code opens the channel of a run stopped during its start request
\* beside the channel of the run that followed it.)
C3_OneOpenChannelPerKind ==
    \A r1, r2 \in DOMAIN runs :
        r1 # r2 /\ runs[r1].type = runs[r2].type /\ runs[r1].job # NoJob /\ runs[r2].job # NoJob
            => ~(HasOpen(runs[r1]) /\ HasOpen(runs[r2]))

\* C4: the reconnects of one streamJobProgress call are scheduled after
\* 2s, 4s, 8s in that order and never a fourth time; when every connection
\* has errored (4 errors) the call has been rejected with 'Stream connection
\* failed after retries', and only then.
C4_BackoffSchedule ==
    \A r \in DOMAIN runs :
        /\ IsPrefix(runs[r].delays, BackoffSchedule)
        /\ Len(runs[r].chans) <= Len(runs[r].delays) + 1
        /\ \A t \in timers : t.run = r =>
               t.delay = runs[r].delays[Len(runs[r].delays)]
        /\ runs[r].errors = 4 <=> runs[r].promise = "exhausted"
        /\ runs[r].promise = "exhausted" =>
               /\ runs[r].delays = BackoffSchedule
               /\ Len(runs[r].chans) = 4
               /\ runs[r].err = StreamExhaustedMsg
               /\ ~HasTimer(timers, r)

C4_Exhausted ==
    \E r \in DOMAIN runs : runs[r].promise = "exhausted" /\ runs[r].errors = 4

\* C5: the i-th channel of a chain carries attempt count i - 1, whatever
\* frames its predecessors received: 0 only for the external call, one more
\* per reconnect, never reset; a chain suffers at most 4 transport errors.
C5_AttemptCounter ==
    \A r \in DOMAIN runs :
        /\ \A i \in DOMAIN runs[r].chans : runs[r].chans[i].attempts = i - 1
        /\ \A t \in timers : t.run = r => t.attempts = Len(runs[r].chans)
        /\ runs[r].errors <= 4
        /\ Settled(runs[r]) => runs[r].errors <= 4 /\ ~HasTimer(timers, r)

\* A progress frame has just been received on the fourth channel of a chain,
\* whose counter is still 3.
C5_FrameAfterReconnects ==
    /\ lastOp = "onmessage"
    /\ added # <<>>
    /\ \E r \in DOMAIN runs :
          /\ Len(runs[r].chans) = 4
          /\ runs[r].chans[4].open
          /\ runs[r].chans[4].attempts = 3
          /\ runs[r].promise = "pending"

\* C6: a terminal frame closes the channel it arrived on and settles the
\* promise; when onmessage closes a channel the promise is settled by it; a
\* promise settled by a frame has no open channel and no timer left; once
\* settled the outcome never changes and no line is added on behalf of that
\* run.
C6_TerminalSettlesOnce ==
    [][ /\ (frame' # NoFrame /\ frame'.f \in TerminalFrames) =>
              LET c == frame'.chan
                  f == frame'.f
              IN  /\ ~runs'[c[1]].chans[c[2]].open
                  /\ runs'[c[1]].chans[c[2]].closes = 1
                  /\ SettledByFrame(runs'[c[1]])
                  /\ runs'[c[1]].promise =
                        (CASE f.status = "completed" -> "resolved"
                           [] f.status = "failed" -> "failed"
                           [] f.status = "cancelled" -> "cancelled")
        /\ \A r \in DOMAIN runs' :
              SettledByFrame(runs'[r]) => AllClosed(runs'[r]) /\ ~HasTimer(timers', r)
        /\ \A r \in DOMAIN runs :
              /\ (lastOp' = "onmessage" /\ HasOpen(runs[r]) /\ ~HasOpen(runs'[r]))
                    => SettledByFrame(runs'[r])
              /\ Settled(runs[r]) =>
                    /\ runs'[r].promise = runs[r].promise
                    /\ runs'[r].err = runs[r].err
                    /\ runs'[r].pc = runs[r].pc
                    /\ ~HasLineOf(added', r)
      ]_vars

\* A terminal frame has just settled a promise after a reconnect.
C6_SettledByTerminalFrame ==
    /\ lastOp = "onmessage"
    /\ \E r \in DOMAIN runs :
          /\ SettledByFrame(runs[r])
          /\ Len(runs[r].chans) >= 2
          /\ runs[r].chans[Len(runs[r].chans)].closes = 1
          /\ HasLineOf(added, r)

\* C7: after closeAllStreams was called under a streaming job, no line is
\* added and no channel is opened for it.  (The code leaves the reconnect
\* timer pending.)
C7_NothingAfterCloseAll ==
    [][ \A r \in DOMAIN runs :
            runs[r].closedAt = "stream" /\ runs[r].job # NoJob =>
                /\ ~HasLineOf(added', r)
                /\ Len(runs'[r].chans) = Len(runs[r].chans)
      ]_vars

\* C8: a call of closeAllStreams calls close() exactly once on every tracked
\* channel and on no other, leaves activeEventSources and currentJobIds
\* empty and, every open channel being tracked, leaves no channel open.
C8_CloseAllClosesTracked ==
    [][ lastOp' \in CloseAllCallers =>
          /\ \A r \in DOMAIN runs : \A i \in DOMAIN runs[r].chans :
                /\ runs'[r].chans[i].closes =
                       runs[r].chans[i].closes
                         + (IF <<r, i>> \in activeEventSources THEN 1 ELSE 0)
                /\ ~runs'[r].chans[i].open
          /\ RegistryEmpty(activeEventSources', currentJobIds')
      ]_vars

\* Stop has just closed the channels of a job whose promise is pending: one
\* closed before by onerror, one open.
C8_ClosedUnsettled ==
    /\ lastOp = "stop"
    /\ activeEventSources = {}
    /\ \E r \in DOMAIN runs :
          /\ runs[r].promise = "pending"
          /\ Len(runs[r].chans) = 2
          /\ runs[r].chans[1].closes = 2
          /\ runs[r].chans[2].closes = 1

C10_NoStreamWithoutJobId ==
    \A r \in DOMAIN runs :
        runs[r].job = NoJob => runs[r].chans = <<>> /\ runs[r].pc \in {"start", "failed"}

----------------------------------------------------------------------------
(* C11..C20 *)

\* C11: a launch that fails (the run* function throws at its start request)
\* leaves activeEventSources, currentJobIds and the results exactly as they
\* were, whatever other runs have put there.
C11_FailedLaunchLeavesState ==
    [][ \A r \in DOMAIN runs :
            (runs[r].pc = "start" /\ runs'[r].pc = "failed") =>
                /\ activeEventSources' = activeEventSources
                /\ currentJobIds' = currentJobIds
                /\ results' = results
                /\ runs'[r].chans = <<>>
      ]_vars

\* The launch of a run stopped earlier has just failed, while the run that
\* followed it has left its handle, its channel and its result in AppState.
C11_FailedBesideResults ==
    /\ lastOp = "startResponse"
    /\ activeEventSources # {}
    /\ \E r1, r2 \in DOMAIN runs :
          /\ r1 < r2
          /\ runs[r1].pc = "failed" /\ runs[r1].promise = "none"
          /\ runs[r2].pc = "done"
          /\ results[runs[r2].type] \in Results
          /\ currentJobIds[runs[r2].type] = runs[r2].job
          /\ runs[r2].job # NoJob

\* C12: a completed record resolves pollJobCompletion with the record's
\* result; a failed and a cancelled record both reject it, with errors of
\* distinct kinds.  (The code throws a plain Error in both cases.)
C12_PollOutcomes ==
    /\ poll.job.status = "completed" => poll.pc = "resolved" /\ poll.value = poll.job.result
    /\ poll.job.status = "cancelled" => poll.pc = "rejected"
    /\ poll.job.status = "failed" =>
          /\ poll.pc = "rejected"
          /\ Kind(poll.err) # Kind(Caught(Error(JobWasCancelledMsg)))


\* C13: a poll request is issued only while less than maxWaitMs has elapsed
\* since the call; every wait between two polls is pollInterval (1 s); the
\* call fails with the timeout error only once maxWaitMs has elapsed, and a
\* call that ends on a non-terminal record ends with the timeout error; a
\* call whose maxWaitMs the explored polls reach does end.
C13_PollsUntilMaxWait ==
    /\ [][ /\ poll'.polls > poll.polls => Elapsed(poll') < poll'.maxWaitMs
           /\ poll.pc = "waiting" => poll.delay = pollInterval
           /\ (poll.pc = "waiting" /\ poll'.pc # "waiting") =>
                  poll'.now >= poll.now + pollInterval
         ]_vars
    /\ [](poll.err.message = TimeoutMsg =>
              poll.pc = "rejected" /\ Elapsed(poll) >= poll.maxWaitMs)
    /\ []((poll.pc = "rejected" /\ poll.polls > 0 /\ NonTerminal(poll.job)) =>
              poll.err = Error(TimeoutMsg) /\ poll.waits = poll.polls)
    /\ []((Polling /\ poll.maxWaitMs < MaxPolls * pollInterval) => <>PollSettled)

\* The job stayed running through two polls, one second apart, and the call
\* timed out after its two seconds.
C13_TimedOut ==
    /\ poll.pc = "rejected"
    /\ poll.err = Error(TimeoutMsg)
    /\ poll.running = 2
    /\ poll.polls = 2 /\ poll.waits = 2
    /\ poll.startTime > 0
    /\ Elapsed(poll) >= poll.maxWaitMs


\* C14: a 'Job not found' response makes pollJobCompletion fail with the
\* expired error, whose kind differs from the kinds of a transport failure,
\* of a backend-reported job failure and of the timeout; no other record
\* yields the expired error.  (The code throws a plain Error in every case,
\* and remaps a failed job whose error text contains 'Job not found'.)
C14_ExpiredByKind ==
    /\ (~poll.job.net /\ poll.job.status = "" /\ poll.job.error = JobNotFound) =>
          /\ poll.pc = "rejected"
          /\ poll.err.message = ExpiredMsg
          /\ Kind(poll.err) \notin {Kind(Caught(Error(<<"boom">>))),
                                    Kind(Caught(Error(JobFailedMsg))),
                                    Kind(Error(TimeoutMsg))}
    /\ poll.err.message = ExpiredMsg => poll.job.status = ""


\* C15: a request that throws, or a response with an error and no status,
\* ends pollJobCompletion at once with that error (remapped by the catch
\* block): no wait is scheduled and no further request is issued, however
\* much of maxWaitMs is left.
C15_TransportErrorEndsPolling ==
    /\ [](TransportFailed(poll.job) =>
              /\ poll.pc = "rejected"
              /\ poll.err = Caught(IF poll.job.net THEN NetworkError ELSE Error(poll.job.error))
              /\ poll.waits = poll.polls - 1
              /\ poll.calls = <<>>)
    /\ [][TransportFailed(poll.job) =>
              poll'.polls = poll.polls /\ poll'.pc = poll.pc /\ poll'.err = poll.err]_vars

\* The second request threw with most of the default maxWaitMs left.
C15_FailedEarly ==
    /\ poll.pc = "rejected"
    /\ poll.job.net
    /\ poll.err = NetworkError
    /\ poll.polls = 2
    /\ poll.maxWaitMs = defaultMaxWaitMs
    /\ Elapsed(poll) < poll.maxWaitMs


\* C16: in a poll cycle whose job record has a non-empty progress_log,
\* onProgress is called exactly once, with the last entry of the log; with
\* an empty log or without a callback it is not called; it is never called
\* outside the handling of a response.
C16_LastEntryOnly ==
    /\ lastOp = "pollResponse" =>
          poll.calls = IF poll.onProgress /\ poll.job.progress_log # <<>>
                       THEN <<poll.job.progress_log[Len(poll.job.progress_log)]>>
                       ELSE <<>>
    /\ lastOp # "pollResponse" => poll.calls = <<>>
    /\ Len(poll.calls) <= 1

\* The second poll finds three entries in the log and delivers the third:
\* two polls cannot have delivered all three.
C16_EntriesDropped ==
    /\ lastOp = "pollResponse"
    /\ poll.onProgress
    /\ poll.polls = 2
    /\ Len(poll.job.progress_log) = 3
    /\ poll.calls = <<Entry(3)>>


\* C17: when the backend has answered 'running' to three polls, and nothing
\* else before, and then answers 'completed' with a result, the call has
\* issued exactly 4 requests, has waited exactly 3 poll intervals and is
\* resolved with that result.
C17_ThreeRunningThenCompleted ==
    (poll.running = 3 /\ poll.waits = poll.running /\ poll.job.status = "completed") =>
        /\ poll.polls = 4
        /\ poll.waits = 3
        /\ poll.pc = "resolved"
        /\ poll.value = poll.job.result
        /\ poll.value \in Results
        /\ Elapsed(poll) >= 3 * pollInterval

C17_ResolvedAtFourthPoll ==
    /\ poll.pc = "resolved"
    /\ poll.running = 3
    /\ poll.polls = 4
    /\ poll.waits = 3
    /\ poll.value = "resA"
    /\ Elapsed(poll) = 3 * pollInterval


\* C18: a frame with the heartbeat flag adds no progress line and changes
\* neither the promise nor any channel, nor anything else of the session.
C18_HeartbeatDiscarded ==
    [][ (frame' # NoFrame /\ frame'.f.heartbeat) =>
            /\ added' = <<>>
            /\ runs' = runs
            /\ UNCHANGED <<activeEventSources, timers, currentJobIds, results,
                           loading, stopDisabled, section>>
      ]_vars

\* A heartbeat has just been received on the channel opened by a reconnect,
\* which stays open under a pending promise.
C18_HeartbeatReceived ==
    /\ lastOp = "onmessage"
    /\ frame # NoFrame
    /\ frame.f.heartbeat
    /\ added = <<>>
    /\ frame.chan[2] = 2
    /\ Chan(frame.chan).open
    /\ runs[frame.chan[1]].promise = "pending"


\* C19: a frame that is neither a heartbeat nor terminal adds no line when
\* it has neither status nor message, exactly one line equal to its message
\* when it has one (with or without a status), and exactly one line made
\* from its status when it has only a status; it settles nothing.
C19_ProgressFrameLines ==
    (frame # NoFrame /\ frame.f \in ProgressFrames) =>
        LET r == frame.chan[1]
            f == frame.f
        IN  /\ added = (IF f.message # <<>> THEN <<Line(r, f.message)>>
                        ELSE IF f.status # "" THEN <<Line(r, <<"~", f.status>>)>>
                        ELSE <<>>)
            /\ Len(added) <= 1
            /\ Chan(frame.chan).open

\* A frame with a status and a message has just added the message alone.
C19_MessageWithStatus ==
    /\ frame # NoFrame
    /\ frame.f.status = "running"
    /\ frame.f.message = <<"fetching">>
    /\ added = <<Line(frame.chan[1], <<"fetching">>)>>


\* C20: a frame is received, and its lines are added, in one task, on the
\* newest channel of its reconnection chain: when a line of a frame is
\* delivered no later channel of the chain exists yet, so no frame of a
\* later channel was delivered before it.  No task that receives no frame
\* delivers a frame's message.  A closed channel is never reopened and a
\* new channel is opened only when every earlier channel of the chain is
\* closed.
C20_ArrivalOrder ==
    [][ /\ frame' # NoFrame =>
              LET r == frame'.chan[1]
                  i == frame'.chan[2]
              IN  /\ i = Len(runs[r].chans)
                  /\ runs[r].chans[i].open
                  /\ Len(runs'[r].chans) = i
                  /\ \A k \in DOMAIN added' : added'[k].run = r
        /\ frame' = NoFrame =>
              \A k \in DOMAIN added' : added'[k].text \notin FrameMessages
        /\ \A r \in DOMAIN runs :
              /\ \A i \in DOMAIN runs[r].chans :
                    ~runs[r].chans[i].open => ~runs'[r].chans[i].open
              /\ Len(runs'[r].chans) > Len(runs[r].chans) => AllClosed(runs[r])
      ]_vars

\* A progress line has just been delivered from the third channel of a
\* chain; the two earlier channels are closed.
C20_LineOnLaterChannel ==
    /\ frame # NoFrame
    /\ frame.chan[2] = 3
    /\ frame.f \in ProgressFrames
    /\ added # <<>>
    /\ ~runs[frame.chan[1]].chans[1].open
    /\ ~runs[frame.chan[1]].chans[2].open

----------------------------------------------------------------------------
(* C21..C30 *)

\* C21: the promise the run* function awaits settles exactly when, and
\* exactly as, the promise of the last channel of the chain does: same
\* outcome, same result or error; until then every promise of the chain is
\* pending.  A message frame received after a reconnect adds its line as one
\* received before it does.
C21_ReconnectTransparent ==
    /\ \A r \in DOMAIN runs :
          runs[r].chans # <<>> =>
              LET n == Len(runs[r].chans)
                  last == runs[r].chans[n]
              IN  /\ runs[r].promise = last.promise
                  /\ \A k \in 1..n : runs[r].chans[k].promise = last.promise
    /\ (frame # NoFrame /\ frame.f \in TerminalFrames) =>
          LET r == frame.chan[1]
              f == frame.f
          IN  /\ f.status = "completed" =>
                    runs[r].promise = "resolved" /\ results[runs[r].type] = f.result
              /\ f.status = "failed" =>
                    runs[r].promise = "failed" /\ runs[r].err = OrElse(f.error, JobFailedMsg)
              /\ f.status = "cancelled" =>
                    runs[r].promise = "cancelled" /\ runs[r].err = JobCancelledMsg
    /\ (frame # NoFrame /\ frame.f \in ProgressFrames /\ frame.f.message # <<>>) =>
          added = <<Line(frame.chan[1], frame.f.message)>>

\* A failed frame received on the third channel of a chain has just
\* rejected the promise of the external call.
C21_RejectedThroughChain ==
    /\ frame # NoFrame
    /\ frame.chan[2] = 3
    /\ frame.f.status = "failed"
    /\ runs[frame.chan[1]].promise = "failed"
    /\ runs[frame.chan[1]].chans[1].promise = "failed"
    /\ runs[frame.chan[1]].pc = "failed"


\* C22: when a job has settled (completed, failed, cancelled or stream
\* exhausted) currentJobIds holds no handle for it.  (The code clears a
\* handle only in closeAllStreams.)
C22_NoHandleAfterSettlement ==
    \A r \in DOMAIN runs :
        (Settled(runs[r]) /\ runs[r].job # NoJob) =>
            currentJobIds[runs[r].type] # runs[r].job


\* C23: when a run's stream resolves, the result slot of its kind becomes
\* the frame's result, whatever it held, and the slot of every other kind is
\* left as it was; processContent leaves every slot empty; nothing else
\* writes a slot.
C23_LastWriteWins ==
    [][ /\ \A r \in DOMAIN runs :
              (runs[r].pc = "stream" /\ runs'[r].pc = "done") =>
                  /\ frame' # NoFrame /\ frame'.chan[1] = r
                  /\ results'[runs[r].type] = frame'.f.result
                  /\ \A t \in Types \ {runs[r].type} : results'[t] = results[t]
        /\ lastOp' = "processContent" => \A t \in Types : results'[t] = Null
        /\ (lastOp' # "processContent"
              /\ \A r \in DOMAIN runs : ~(runs[r].pc = "stream" /\ runs'[r].pc = "done"))
           => results' = results
      ]_vars

\* A result has just been stored for one kind while the slot of another
\* kind holds the result of the other run.
C23_StoredBesideOtherKind ==
    /\ frame # NoFrame
    /\ frame.f.status = "completed"
    /\ \E r1, r2 \in DOMAIN runs :
          /\ runs[r1].type # runs[r2].type
          /\ runs[r1].pc = "done" /\ runs[r2].pc = "done"
          /\ frame.chan[1] = r1
          /\ results[runs[r1].type] = frame.f.result
          /\ results[runs[r2].type] \in Results
          /\ results[runs[r2].type] # frame.f.result


\* C24: when processContent has issued the start request of a run, every
\* result slot is empty, the registry is empty and no channel is open.
C24_ClearedBeforeLaunch ==
    lastOp = "processContent" =>
        /\ \A t \in Types : results[t] = Null
        /\ RegistryEmpty(activeEventSources, currentJobIds)
        /\ \A r \in DOMAIN runs : AllClosed(runs[r])
        /\ runs[Len(runs)].pc = "start"
        /\ runs[Len(runs)].chans = <<>>

\* A second run has just been started after a run that had stored its
\* result.
C24_StartedAfterResults ==
    /\ lastOp = "processContent"
    /\ Len(runs) = 2
    /\ runs[1].pc = "done"
    /\ runs[1].promise = "resolved"
    /\ \A t \in Types : results[t] = Null


\* The error a stream promise rejects with in a task: the exhaustion error
\* of onerror, or the error onmessage makes of a failed or cancelled frame.
StreamRejection(op, fr) ==
    IF op = "onerror" THEN StreamExhaustedMsg
    ELSE IF fr.f.status = "failed" THEN OrElse(fr.f.error, JobFailedMsg)
    ELSE JobCancelledMsg

Count(seq, x) == Cardinality({i \in DOMAIN seq : seq[i] = x})

\* C25: when the stream of a run rejects, the run ends with the stream's
\* error itself, the task adds exactly one runner error line, as its last
\* line, and no result slot changes.
C25_StreamRejectionPropagates ==
    [][\A r \in DOMAIN runs :
          (runs[r].promise = "pending" /\ runs'[r].promise \in {"failed", "cancelled", "exhausted"}) =>
              LET e == StreamRejection(lastOp', frame')
                  line == Line(r, RunnerFailedPrefix(runs[r].type) \o e)
              IN /\ runs'[r].pc = "failed"
                 /\ runs'[r].err = e
                 /\ Count(added', line) = 1
                 /\ added'[Len(added')] = line
                 /\ results' = results]_vars

\* A stream has rejected on a failed frame while another kind's result is
\* stored.
C25_RejectedBesideResult ==
    /\ lastOp = "onmessage"
    /\ frame.f.status = "failed"
    /\ runs[frame.chan[1]].promise = "failed"
    /\ runs[frame.chan[1]].err = <<"boom">>
    /\ \E t \in Types \ {runs[frame.chan[1]].type} : results[t] # Null
    /\ results[runs[frame.chan[1]].type] = Null


\* C26: when a run fails, the generic error display is shown unless the
\* failure is a job cancellation, whatever the words of the message.
C26_SuppressedByKind ==
    [][\A r \in DOMAIN runs :
          (runs[r].pc # "failed" /\ runs'[r].pc = "failed") =>
              (section' = "error" <=> runs'[r].promise # "cancelled")]_vars


\* C27: on a Bias run, a message frame delivers exactly its one line, and
\* when the completed frame has resolved the run the Bias slot holds the
\* frame's result and no channel of the run is in activeEventSources.
\* (The code leaves the closed channel in the set, as under C2.)
C27_BiasEndToEnd ==
    \A r \in DOMAIN runs :
        (runs[r].type = "bias" /\ lastOp = "onmessage" /\ frame.chan[1] = r) =>
            /\ (~frame.f.heartbeat /\ frame.f.status = "" /\ frame.f.message # <<>>) =>
                   added = <<Line(r, frame.f.message)>>
            /\ (~frame.f.heartbeat /\ frame.f.status = "completed") =>
                   /\ runs[r].promise = "resolved"
                   /\ results["bias"] = frame.f.result
                   /\ \A c \in activeEventSources : c[1] # r


\* C28: once Stop was pressed under a run, the run opens no channel, no
\* result is stored and the results section is not brought up.  (The code
\* lets the run* function go on when its start request is answered, and
\* leaves a pending reconnect timer.)
C28_StoppedRunIsInert ==
    [][\A r \in DOMAIN runs :
          runs[r].closedAt # "" =>
              /\ Len(runs'[r].chans) = Len(runs[r].chans)
              /\ runs'[r].pc # "done"
              /\ results' = results
              /\ (section' = "results" => section = "results")]_vars


\* C29: once a newer run was started, a result is stored and the results
\* section is brought up only by the newest run.  (The code lets an
\* earlier run, stopped during its start request, complete beside it.)
C29_OnlyNewestRunWrites ==
    [][\A r \in DOMAIN runs :
          (runs[r].pc # "done" /\ runs'[r].pc = "done") => r = Len(runs)]_vars


\* C30: in the reconnection chain of a run only the channel opened last can
\* be open, no channel is open while the reconnect timer is pending, and
\* at most maxReconnects + 1 = 4 channels are opened.
C30_OneChannelPerChain ==
    \A r \in DOMAIN runs :
        /\ \A i \in DOMAIN runs[r].chans : runs[r].chans[i].open => i = Len(runs[r].chans)
        /\ HasTimer(timers, r) => AllClosed(runs[r])
        /\ Len(runs[r].chans) <= maxReconnects + 1

\* The fourth channel of a chain is open after three reconnects.
C30_FourthChannelOpen ==
    \E r \in DOMAIN runs :
        /\ Len(runs[r].chans) = maxReconnects + 1
        /\ runs[r].chans[maxReconnects + 1].open
        /\ runs[r].errors = maxReconnects
        /\ \A i \in 1..maxReconnects : runs[r].chans[i].closes = 1


----------------------------------------------------------------------------
(* C31..C38 *)

\* C31: when the promise of a run's streamJobProgress call has settled, no
\* channel of the run is open and no reconnect timer of the run is pending.
C31_SettledChainIsQuiet ==
    \A r \in DOMAIN runs :
        Settled(runs[r]) => AllClosed(runs[r]) /\ ~HasTimer(timers, r)

\* A call has settled on a frame of a channel opened by a reconnect.
C31_SettledAfterReconnect ==
    \E r \in DOMAIN runs :
        /\ SettledByFrame(runs[r])
        /\ Len(runs[r].chans) >= 2
        /\ lastOp = "onmessage"
        /\ frame.chan = <<r, Len(runs[r].chans)>>


\* C32: when every channel ends and a pending timer fires, a pending
\* streamJobProgress call under which closeAllStreams is not called
\* eventually settles, and it never schedules more than maxReconnects = 3
\* reconnects.
C32_StreamEventuallySettles ==
    \A r \in 1..MaxRuns :
        /\ [](r \in DOMAIN runs /\ runs[r].promise = "pending"
               => <>(r \in DOMAIN runs /\ (Settled(runs[r]) \/ runs[r].closedAt # "")))
        /\ [](r \in DOMAIN runs => Len(runs[r].delays) <= maxReconnects)

\* A call has settled after three reconnects, never stopped.
C32_SettledAfterThreeReconnects ==
    \E r \in DOMAIN runs :
        /\ Settled(runs[r])
        /\ runs[r].closedAt = ""
        /\ Len(runs[r].delays) = maxReconnects


\* C33: a frame with the heartbeat flag and a terminal status leaves its
\* channel open and not closed once more, leaves the promise as it was,
\* adds no line and stores no result.
C33_TerminalHeartbeatDiscarded ==
    [][ (frame' # NoFrame /\ frame'.f.heartbeat
            /\ frame'.f.status \in {"completed", "failed", "cancelled"}) =>
            LET r == frame'.chan[1]
                i == frame'.chan[2]
            IN /\ runs'[r].chans[i].open
               /\ runs'[r].chans[i].closes = runs[r].chans[i].closes
               /\ runs'[r].promise = runs[r].promise
               /\ runs'[r].pc = runs[r].pc
               /\ added' = <<>>
               /\ results' = results
      ]_vars

\* A heartbeat frame with status completed and a result was received: the
\* channel is open, the promise pending and the slot empty.
C33_CompletedHeartbeatReceived ==
    /\ lastOp = "onmessage"
    /\ frame.f.heartbeat
    /\ frame.f.status = "completed"
    /\ frame.f.result = "resA"
    /\ Chan(frame.chan).open
    /\ runs[frame.chan[1]].promise = "pending"
    /\ results[runs[frame.chan[1]].type] = Null


\* C34: with a callback, the poll that observes a terminal status with a
\* non-empty log calls onProgress with the last entry in the task that
\* settles the call; a poll whose log is the same as the log of the poll
\* before calls it again; once the call has settled nothing is called.
C34_ProgressOnEveryPoll ==
    [][ LET job == poll'.job
            last == <<job.progress_log[Len(job.progress_log)]>>
        IN
        /\ (lastOp' = "pollResponse" /\ poll'.onProgress /\ job.progress_log # <<>>
               /\ job.status \in {"completed", "failed", "cancelled"}) =>
                  (poll'.calls = last /\ poll.pc = "fetching"
                     /\ poll'.pc \in {"resolved", "rejected"})
        /\ (lastOp' = "pollResponse" /\ poll'.onProgress /\ job.progress_log # <<>>
               /\ job.progress_log = poll.job.progress_log) =>
                  poll'.calls = last
        /\ PollSettled => poll'.calls = poll.calls
      ]_vars

\* The third poll, after two that found the job running, observes completed
\* with a one-entry log and has delivered the entry while settling.
C34_CalledOnTerminalPoll ==
    /\ lastOp = "pollResponse"
    /\ poll.pc = "resolved"
    /\ poll.onProgress
    /\ poll.polls = 3
    /\ poll.running = 2
    /\ Len(poll.log) = 1
    /\ poll.calls = <<Entry(1)>>


\* C35: a job record with status failed rejects pollJobCompletion with the
\* record's error text (or 'Job failed'), whatever the text says.  (The
\* catch block remaps every message that contains 'Job not found'.)
C35_FailedKeepsMessage ==
    (~poll.job.net /\ poll.job.status = "failed") =>
        /\ poll.pc = "rejected"
        /\ poll.err.message = OrElse(poll.job.error, JobFailedMsg)


\* C36: in the task in which the run* function awaited by processContent
\* returns or throws, loading is reset and the Stop button disabled; the
\* results section is brought up when it returned and is not brought up
\* when it threw.
C36_FinallyResetsLoading ==
    [][\A r \in DOMAIN runs :
          (Active(runs[r]) /\ ~Active(runs'[r])) =>
              /\ ~loading'
              /\ stopDisabled'
              /\ runs'[r].pc = "done" => section' = "results"
              /\ runs'[r].pc = "failed" => section' \in {"error", section}
      ]_vars

\* The pipeline was rejected by exhausted reconnects while loading: the
\* error is shown, loading is reset, Stop is disabled.
C36_ResetAfterRejection ==
    \E r \in DOMAIN runs :
        /\ runs[r].pc = "failed"
        /\ runs[r].promise = "exhausted"
        /\ runs[r].closedAt = ""
        /\ lastOp = "onerror"
        /\ section = "error"
        /\ ~loading
        /\ stopDisabled


\* C37: lastFetchedArticle changes only to a result with success true and
\* at least 100 characters of trimmed content; a fetchArticleFromUrl call
\* that ends by throwing leaves lastFetchedArticle as it was and throws an
\* error.  (The code assigns lastFetchedArticle before it reads
\* result.content_length, which throws when the field is absent.)
C37_ArticleKeptOnFailure ==
    [][ /\ lastFetchedArticle' # lastFetchedArticle =>
              /\ lastFetchedArticle'.success
              /\ Length(Trim(lastFetchedArticle'.content)) >= minContentLength
        /\ (fetch.pc # "idle" /\ fetch'.pc = "idle" /\ fetch'.outcome = "thrown") =>
              /\ lastFetchedArticle' = lastFetchedArticle
              /\ fetch'.err # NoError
      ]_vars


\* C38: a handleAnalyze call that ends with empty content and no valid URL,
\* with a failed fetch, or in llm-output mode with content without links
\* starts no run and leaves channels, registry, timers and results as they
\* were, the content being parked in the last case; every other call
\* starts exactly one run, of the pipeline of the selected mode.
C38_AnalyzeLaunchesOnce ==
    [][ (analyze'.pc = "idle"
           /\ (analyze.pc = "fetching" \/ lastOp' \in {"handleAnalyze", "processContent"})) =>
        LET content == analyze'.content
            noInput == /\ analyze.pc = "idle"
                       /\ Length(content) = 0
                       /\ ~(analyze'.url # <<>> /\ isValidUrl(analyze'.url))
            fetchFailed == analyze.pc = "fetching" /\ fetch'.outcome = "thrown"
            parked == /\ ~fetchFailed
                      /\ Length(content) > 0
                      /\ analyze'.mode = "llm-output"
                      /\ ~content.links
        IN  IF noInput \/ fetchFailed \/ parked
            THEN /\ UNCHANGED <<runs, activeEventSources, timers, currentJobIds, results>>
                 /\ parked => pendingContent' = content
            ELSE /\ Len(runs') = Len(runs) + 1
                 /\ \A r \in DOMAIN runs : Len(runs'[r].chans) = Len(runs[r].chans)
                 /\ runs'[Len(runs')].pc = "start"
                 /\ <<analyze'.mode, runs'[Len(runs')].type>> \in
                        {<<"llm-output", "html">>, <<"text-factcheck", "text">>,
                         <<"key-claims", "key-claims">>, <<"bias-analysis", "bias">>,
                         <<"lie-detection", "lie-detection">>,
                         <<"manipulation", "manipulation">>}
      ]_vars

\* handleAnalyze has fetched the article from the URL and started the Bias
\* pipeline on its content.
C38_LaunchedAfterFetch ==
    /\ lastOp = "processContent"
    /\ analyze.outcome = "launched"
    /\ analyze.url # <<>>
    /\ fetch.caller = "analyze"
    /\ fetch.outcome = "returned"
    /\ lastFetchedArticle # NullArticle
    /\ analyze.content = lastFetchedArticle.content
    /\ runs[Len(runs)].type = "bias"
    /\ runs[Len(runs)].pc = "start"

====
